---- MODULE Spec2Model ----
(***************************************************************************)
(* ValidatedJson<T, E>: the jayson-validated JSON extractor of             *)
(* meilisearch-http (src/meilisearch-http/src/extractors/jayson.rs).       *)
(*                                                                         *)
(* An extraction is one ValidatedJsonExtractFut.  from_request builds it   *)
(* around the future of Json<serde_json::Value> (the Body Collector); poll *)
(* polls that inner future once and, when it is ready, maps its result.    *)
(* The inner future, the contract T: DeserializeFromValue<E> and the       *)
(* conversion E -> ResponseError are parameters of the code: the inner     *)
(* future's result is an input of every poll, T and E are inputs of        *)
(* from_request.                                                           *)
(***************************************************************************)
EXTENDS Naturals, Sequences, FiniteSets

VARIABLES
    payload,      \* request -> what its &mut Payload holds: "Stream" or "None"
    phase,        \* extraction -> position in its life (see Phases)
    tyT,          \* extraction -> the type parameter T
    tyE,          \* extraction -> the type parameter E
    stream,       \* extraction -> the body stream its inner future owns
    starts,       \* extraction -> times the Body Collector was started
    inner,        \* extraction -> what the last poll of this.fut returned
    output,       \* extraction -> what the last call of poll returned
    trace,        \* extraction -> the steps the last call of poll ran, in order
    outcomes,     \* extraction -> number of polls that returned Poll::Ready
    deserCalls,   \* extraction -> number of calls of T::deserialize_from_value
    got           \* extraction -> what the caller took out of the result

vars == <<payload, phase, tyT, tyE, stream, starts, inner, output, trace,
          outcomes, deserCalls, got>>

----------------------------------------------------------------------------
(* Bounds *)

\* Poll::Ready results one extraction may return (the second and later ones
\* come from polls made after the future has completed).
MaxReady == 2

Requests == {"r1", "r2"}
Extractions == {"x1", "x2"}

\* unborn: from_request not yet called; awaiting: the inner future has not
\* completed; ready: it has, in the last poll; repolled: poll was called
\* again after that; cancelled, finished, discarded: the future is dropped
\* from awaiting, ready (its result taken by the caller), repolled.
Phases == {"unborn", "awaiting", "ready", "repolled",
           "cancelled", "finished", "discarded"}

----------------------------------------------------------------------------
(* The parameters of the code: bodies, T, E *)

DomainTypes == {"NameDoc", "OptDoc"}
ErrorTypes == {"FieldError", "PayloadError"}

None == [tag |-> "None"]

\* serde_json::Value: the bodies {}, {"name": "a"} and {"name": 5}
JString(s) == [kind |-> "String", str |-> s]
JNumber(n) == [kind |-> "Number", num |-> n]
JObject(members) == [kind |-> "Object", members |-> members]
GenericValues == {JObject({}),
                  JObject({<<"name", JString("a")>>}),
                  JObject({<<"name", JNumber(5)>>})}

\* the errors of the inner future, and their Display
CollectorErrors == {"malformed", "empty"}
Display(err) ==
    IF err = "malformed"
    THEN "Json deserialize error: key must be a string at line 1 column 2"
    ELSE "Json deserialize error: EOF while parsing a value at line 1 column 0"

\* Json<T>(pub T) and Json::into_inner
Json(v) == <<v>>
Json_into_inner(data) == data[1]

\* what a poll of this.fut can return
Pending == [tag |-> "Pending"]
Panic == [tag |-> "Panic"]
CollectorOk(v) == [tag |-> "Ok", val |-> Json(v)]
CollectorErr(err) == [tag |-> "Err", err |-> err]
CollectorReady == {CollectorOk(v) : v \in GenericValues}
                      \cup {CollectorErr(e) : e \in CollectorErrors}

\* IntoValue for serde_json::Value: the jayson::Value of a body
ScalarIntoValue(v) ==
    IF v.kind = "String" THEN [kind |-> "String", str |-> v.str]
    ELSE [kind |-> "Integer", int |-> v.num]
IntoValue(v) ==
    [kind |-> "Map",
     entries |-> {<<m[1], ScalarIntoValue(m[2])>> : m \in v.members}]

\* T::deserialize_from_value for the two domain types:
\*   NameDoc { name: String }, OptDoc { name: Option<String> }
DeserErr(E, kind) == [ty |-> E, kind |-> kind, field |-> "name"]
NameEntries(value) == {m \in value.entries : m[1] = "name"}
DeserializeFromValue(T, E, value) ==
    IF NameEntries(value) = {}
    THEN IF T = "NameDoc"
         THEN [tag |-> "Err", err |-> DeserErr(E, "missing_field")]
         ELSE [tag |-> "Ok", val |-> [type |-> T, name |-> <<>>]]
    ELSE LET field == (CHOOSE m \in NameEntries(value) : TRUE)[2]
         IN  IF field.kind = "String"
             THEN [tag |-> "Ok", val |-> [type |-> T, name |-> <<field.str>>]]
             ELSE [tag |-> "Err", err |-> DeserErr(E, "incorrect_value_kind")]

TypedValues ==
    {[type |-> T, name |-> n] : T \in DomainTypes, n \in {<<>>, <<"a">>}}

\* E: ErrorCode + Display
ErrorCode(e) ==
    IF e.ty = "PayloadError" THEN "MalformedPayload"
    ELSE IF e.kind = "missing_field" THEN "MissingParameter"
    ELSE "BadRequest"
ErrorMessage(e) ==
    IF e.kind = "missing_field" THEN "Json deserialize error: missing field name"
    ELSE "Json deserialize error: invalid type for name"

----------------------------------------------------------------------------
(* ResponseError *)

ResponseError_from_msg(message, code) == [message |-> message, code |-> code]

\* impl From<E: ErrorCode> for ResponseError
IntoResponseError(e) == ResponseError_from_msg(ErrorMessage(e), ErrorCode(e))

----------------------------------------------------------------------------
(* ValidatedJson<T, E>(pub T, PhantomData<*const E>) *)

PhantomData == [tag |-> "PhantomData"]

ValidatedJson_new(data) == <<data, PhantomData>>

\* (mutant) the accessor returns the wrong field of the tuple struct
ValidatedJson_into_inner_Marker(self) == self[2]

ValidatedJson_into_inner(self) == self[1]

----------------------------------------------------------------------------
(* ValidatedJsonExtractFut::poll *)

Ok(x) == [tag |-> "Ok", val |-> x]
Err(e) == [tag |-> "Err", err |-> e]
PollReady(res) == [tag |-> "Ready", res |-> res]
PollPending == [tag |-> "Pending"]
Unwound == [tag |-> "Unwound"]

Step(op, arg) == [op |-> op, arg |-> arg]

\* (mutant) the collector's failure reported under another code
OnCollectorErr_WrongCode(err) ==
    [res |-> Err(ResponseError_from_msg(Display(err), "BadRequest")),
     steps |-> <<Step("from_msg", CollectorErr(err))>>]

\* Err(err) => Err(ResponseError::from_msg(format!("{err}"), Code::MalformedPayload))
OnCollectorErr(err) ==
    [res |-> Err(ResponseError_from_msg(Display(err), "MalformedPayload")),
     steps |-> <<Step("from_msg", CollectorErr(err))>>]

\* (mutant) a validation failure reported as a malformed payload
OnDeserialized_AsMalformed(d) ==
    IF d.tag = "Ok"
    THEN [res |-> Ok(ValidatedJson_new(d.val)), steps |-> <<Step("new", d)>>]
    ELSE [res |-> Err(ResponseError_from_msg(ErrorMessage(d.err), "MalformedPayload")),
          steps |-> <<Step("into", d)>>]

\* match T::deserialize_from_value(value) { Ok(data) => Ok(ValidatedJson::new(data)),
\*                                          Err(e) => Err(e.into()) }
OnDeserialized(d) ==
    IF d.tag = "Ok"
    THEN [res |-> Ok(ValidatedJson_new(d.val)), steps |-> <<Step("new", d)>>]
    ELSE [res |-> Err(IntoResponseError(d.err)), steps |-> <<Step("into", d)>>]

\* (mutant) the collected body is dropped and an empty map deserialized
OnCollectorOk_DropsBody(T, E, data) ==
    LET value == IntoValue(JObject({}))
        d == DeserializeFromValue(T, E, value)
        m == OnDeserialized(d)
    IN  [res |-> m.res,
         steps |-> <<Step("into_value", Ok(data)),
                     Step("deserialize_from_value", value)>> \o m.steps]

\* (mutant) the contract is run once to validate and once more to build
OnCollectorOk_DeserializesTwice(T, E, data) ==
    LET value == IntoValue(Json_into_inner(data))
        d == DeserializeFromValue(T, E, value)
        m == OnDeserialized(d)
    IN  [res |-> m.res,
         steps |-> <<Step("into_value", Ok(data)),
                     Step("deserialize_from_value", value),
                     Step("deserialize_from_value", value)>> \o m.steps]

\* (mutant) a retry: when the contract fails it is run a second time
OnCollectorOk_RetriesOnFailure(T, E, data) ==
    LET value == IntoValue(Json_into_inner(data))
        d == DeserializeFromValue(T, E, value)
        m == OnDeserialized(d)
    IN  [res |-> m.res,
         steps |-> <<Step("into_value", Ok(data)),
                     Step("deserialize_from_value", value)>>
                   \o (IF d.tag = "Err"
                       THEN <<Step("deserialize_from_value", value)>>
                       ELSE <<>>)
                   \o m.steps]

\* Ok(data) => { let value = data.into_inner().into_value(); match ... }
OnCollectorOk(T, E, data) ==
    LET value == IntoValue(Json_into_inner(data))
        d == DeserializeFromValue(T, E, value)
        m == OnDeserialized(d)
    IN  [res |-> m.res,
         steps |-> <<Step("into_value", Ok(data)),
                     Step("deserialize_from_value", value)>> \o m.steps]

\* (mutant) no short-circuit: a failed collection still runs the contract,
\* on an empty map, before the malformed-payload error is returned
MatchRes_NoShortCircuit(T, E, res) ==
    IF res.tag = "Err"
    THEN [res |-> OnCollectorErr(res.err).res,
          steps |-> <<Step("deserialize_from_value", IntoValue(JObject({})))>>
                        \o OnCollectorErr(res.err).steps]
    ELSE OnCollectorOk(T, E, res.val)

\* let res = match res { Err(err) => ..., Ok(data) => ... }
MatchRes(T, E, res) ==
    IF res.tag = "Err" THEN OnCollectorErr(res.err)
    ELSE OnCollectorOk(T, E, res.val)

\* (mutant) without ready!: a pending collector is taken for a failed one
PollRun_NoReadyCheck(T, E, res) ==
    IF res.tag = "Panic"
    THEN [ret |-> Unwound, steps |-> <<Step("poll_inner", res)>>]
    ELSE LET m == IF res.tag = "Pending" THEN OnCollectorErr("empty")
                  ELSE MatchRes(T, E, res)
         IN  [ret |-> PollReady(m.res),
              steps |-> <<Step("poll_inner", res)>> \o m.steps]

\* (mutant) speculative: while the collector is pending, the contract is
\* already run on what has arrived so far
PollRun_EagerDeserialize(T, E, res) ==
    IF res.tag = "Panic"
    THEN [ret |-> Unwound, steps |-> <<Step("poll_inner", res)>>]
    ELSE IF res.tag = "Pending"
    THEN [ret |-> PollPending,
          steps |-> <<Step("poll_inner", res),
                      Step("deserialize_from_value", IntoValue(JObject({})))>>]
    ELSE LET m == MatchRes(T, E, res)
         IN  [ret |-> PollReady(m.res),
              steps |-> <<Step("poll_inner", res)>> \o m.steps]

\* (mutant) a second suspension: when the collector has become ready the
\* poll returns Pending once more and leaves the conversion for later
PollRun_SuspendsBeforeConvert(T, E, res) ==
    IF res.tag = "Panic"
    THEN [ret |-> Unwound, steps |-> <<Step("poll_inner", res)>>]
    ELSE [ret |-> PollPending, steps |-> <<Step("poll_inner", res)>>]

\* (mutant) a failed collection is swallowed: the poll returns Pending and
\* waits for a body that will not come
PollRun_WaitsOnCollectorError(T, E, res) ==
    IF res.tag = "Panic"
    THEN [ret |-> Unwound, steps |-> <<Step("poll_inner", res)>>]
    ELSE IF res.tag \in {"Pending", "Err"}
    THEN [ret |-> PollPending, steps |-> <<Step("poll_inner", res)>>]
    ELSE LET m == MatchRes(T, E, res)
         IN  [ret |-> PollReady(m.res),
              steps |-> <<Step("poll_inner", res)>> \o m.steps]

\* One call of poll, given what the poll of this.fut returns: the value
\* returned and the steps run, in the order the code runs them.  ready!
\* returns Poll::Pending at once; a panic of the inner poll unwinds.
PollRun(T, E, res) ==
    IF res.tag = "Panic"
    THEN [ret |-> Unwound, steps |-> <<Step("poll_inner", res)>>]
    ELSE IF res.tag = "Pending"
    THEN [ret |-> PollPending, steps |-> <<Step("poll_inner", res)>>]
    ELSE LET m == MatchRes(T, E, res)
         IN  [ret |-> PollReady(m.res),
              steps |-> <<Step("poll_inner", res)>> \o m.steps]

CountOp(steps, op) == Cardinality({k \in 1..Len(steps) : steps[k].op = op})

\* what the inner future of extraction i can return before it has completed
InnerResults(i) ==
    IF stream[i] = "None"
    THEN {Pending, CollectorErr("empty")}
    ELSE {Pending} \cup CollectorReady

\* ... and when it is polled again after it has completed (the Future
\* contract leaves this open: it may panic, stay pending or be ready again)
InnerResultsAfterReady(i) == {Pending, Panic} \cup CollectorReady

\* (mutant) the result is kept in one slot shared by all extractions
PollBody_SharedOutput(i, res, after) ==
    LET run == PollRun(tyT[i], tyE[i], res)
    IN  /\ inner' = [inner EXCEPT ![i] = res]
        /\ output' = [j \in Extractions |-> run.ret]
        /\ trace' = [trace EXCEPT ![i] = run.steps]
        /\ outcomes' = [outcomes EXCEPT
                          ![i] = @ + (IF run.ret.tag = "Ready" THEN 1 ELSE 0)]
        /\ deserCalls' = [deserCalls EXCEPT
                          ![i] = @ + CountOp(run.steps, "deserialize_from_value")]
        /\ phase' = [phase EXCEPT
                          ![i] = IF after THEN "repolled"
                                 ELSE IF res.tag \in {"Ok", "Err"} THEN "ready"
                                 ELSE "awaiting"]
        /\ UNCHANGED <<payload, tyT, tyE, stream, starts, got>>

\* (mutant) state kept across extractions: once some extraction has produced
\* an outcome, a global flag makes every other one see an empty body
PollBody_GlobalConsumedFlag(i, res, after) ==
    LET seen == \E j \in Extractions \ {i} : outcomes[j] > 0
        run == PollRun(tyT[i], tyE[i],
                       IF seen /\ res \in CollectorReady
                       THEN CollectorErr("empty") ELSE res)
    IN  /\ inner' = [inner EXCEPT ![i] = res]
        /\ output' = [output EXCEPT ![i] = run.ret]
        /\ trace' = [trace EXCEPT ![i] = run.steps]
        /\ outcomes' = [outcomes EXCEPT
                          ![i] = @ + (IF run.ret.tag = "Ready" THEN 1 ELSE 0)]
        /\ deserCalls' = [deserCalls EXCEPT
                          ![i] = @ + CountOp(run.steps, "deserialize_from_value")]
        /\ phase' = [phase EXCEPT
                          ![i] = IF after THEN "repolled"
                                 ELSE IF res.tag \in {"Ok", "Err"} THEN "ready"
                                 ELSE "awaiting"]
        /\ UNCHANGED <<payload, tyT, tyE, stream, starts, got>>

\* (mutant) a fused future: once it has returned Ready it remembers the
\* outcome and replays it, without polling the inner future again
PollBody_Fused(i, res, after) ==
    LET run == IF after /\ output[i].tag = "Ready"
               THEN [ret |-> output[i], steps |-> <<Step("replay", output[i])>>]
               ELSE PollRun(tyT[i], tyE[i], res)
    IN  /\ inner' = [inner EXCEPT ![i] = res]
        /\ output' = [output EXCEPT ![i] = run.ret]
        /\ trace' = [trace EXCEPT ![i] = run.steps]
        /\ outcomes' = [outcomes EXCEPT
                          ![i] = @ + (IF run.ret.tag = "Ready" THEN 1 ELSE 0)]
        /\ deserCalls' = [deserCalls EXCEPT
                          ![i] = @ + CountOp(run.steps, "deserialize_from_value")]
        /\ phase' = [phase EXCEPT
                          ![i] = IF after THEN "repolled"
                                 ELSE IF res.tag \in {"Ok", "Err"} THEN "ready"
                                 ELSE "awaiting"]
        /\ UNCHANGED <<payload, tyT, tyE, stream, starts, got>>

PollBody(i, res, after) ==
    LET run == PollRun(tyT[i], tyE[i], res)
    IN  /\ inner' = [inner EXCEPT ![i] = res]
        /\ output' = [output EXCEPT ![i] = run.ret]
        /\ trace' = [trace EXCEPT ![i] = run.steps]
        /\ outcomes' = [outcomes EXCEPT
                          ![i] = @ + (IF run.ret.tag = "Ready" THEN 1 ELSE 0)]
        /\ deserCalls' = [deserCalls EXCEPT
                          ![i] = @ + CountOp(run.steps, "deserialize_from_value")]
        /\ phase' = [phase EXCEPT
                          ![i] = IF after THEN "repolled"
                                 ELSE IF res.tag \in {"Ok", "Err"} THEN "ready"
                                 ELSE "awaiting"]
        /\ UNCHANGED <<payload, tyT, tyE, stream, starts, got>>

----------------------------------------------------------------------------
(* Actions *)

Init ==
    /\ payload = [r \in Requests |-> "Stream"]
    /\ phase = [i \in Extractions |-> "unborn"]
    /\ tyT = [i \in Extractions |-> "-"]
    /\ tyE = [i \in Extractions |-> "-"]
    /\ stream = [i \in Extractions |-> "-"]
    /\ starts = [i \in Extractions |-> 0]
    /\ inner = [i \in Extractions |-> None]
    /\ output = [i \in Extractions |-> None]
    /\ trace = [i \in Extractions |-> <<>>]
    /\ outcomes = [i \in Extractions |-> 0]
    /\ deserCalls = [i \in Extractions |-> 0]
    /\ got = [i \in Extractions |-> None]

\* ValidatedJson::<T, E>::from_request(req, payload): the inner future takes
\* the request's payload, leaving Payload::None behind.
FromRequest(i, r, T, E) ==
    /\ phase[i] = "unborn"
    /\ phase' = [phase EXCEPT ![i] = "awaiting"]
    /\ tyT' = [tyT EXCEPT ![i] = T]
    /\ tyE' = [tyE EXCEPT ![i] = E]
    /\ stream' = [stream EXCEPT
                    ![i] = IF payload[r] = "Stream" THEN r ELSE "None"]
    /\ payload' = [payload EXCEPT ![r] = "None"]
    /\ starts' = [starts EXCEPT ![i] = @ + 1]
    /\ UNCHANGED <<inner, output, trace, outcomes, deserCalls, got>>

\* poll, called while the extraction has not yet returned Poll::Ready
Poll(i, res) ==
    /\ phase[i] = "awaiting"
    /\ res \in InnerResults(i)
    /\ PollBody(i, res, FALSE)

\* poll, called again after the extraction returned Poll::Ready
PollAfterReady(i, res) ==
    /\ phase[i] \in {"ready", "repolled"}
    /\ output[i].tag # "Unwound"
    /\ res \in InnerResultsAfterReady(i)
    /\ res \in CollectorReady => outcomes[i] < MaxReady
    /\ PollBody(i, res, TRUE)

\* the request is cancelled and the future dropped while it awaits the body
Cancel(i) ==
    /\ phase[i] = "awaiting"
    /\ phase' = [phase EXCEPT ![i] = "cancelled"]
    /\ UNCHANGED <<payload, tyT, tyE, stream, starts, inner, output, trace,
                   outcomes, deserCalls, got>>

\* the caller takes the result of a completed extraction: into_inner on
\* success, the ResponseError on failure
Handle(i) ==
    /\ phase[i] = "ready"
    /\ output[i].tag = "Ready"
    /\ phase' = [phase EXCEPT ![i] = "finished"]
    /\ got' = [got EXCEPT
                 ![i] = IF output[i].res.tag = "Ok"
                        THEN Ok(ValidatedJson_into_inner(output[i].res.val))
                        ELSE output[i].res]
    /\ UNCHANGED <<payload, tyT, tyE, stream, starts, inner, output, trace,
                   outcomes, deserCalls>>

\* a future that was polled after completion is dropped
Discard(i) ==
    /\ phase[i] = "repolled"
    /\ phase' = [phase EXCEPT ![i] = "discarded"]
    /\ UNCHANGED <<payload, tyT, tyE, stream, starts, inner, output, trace,
                   outcomes, deserCalls, got>>

Next ==
    \/ \E i \in Extractions, r \in Requests, T \in DomainTypes, E \in ErrorTypes :
          FromRequest(i, r, T, E)
    \/ \E i \in Extractions : \E res \in {Pending} \cup CollectorReady :
          Poll(i, res)
    \/ \E i \in Extractions : \E res \in {Pending, Panic} \cup CollectorReady :
          PollAfterReady(i, res)
    \/ \E i \in Extractions : Cancel(i)
    \/ \E i \in Extractions : Handle(i)
    \/ \E i \in Extractions : Discard(i)

Spec == Init /\ [][Next]_vars

\* the poll in which the Body Collector of extraction i is ready
CollectorBecomesReady(i) == \E res \in CollectorReady : Poll(i, res)

\* The executor polls a future again whenever its waker is called, and the
\* body of a request that is not cancelled arrives in the end: an extraction
\* that stays awaiting is eventually polled with its collector ready.
FairSpec ==
    Spec /\ \A i \in Extractions : WF_vars(CollectorBecomesReady(i))

----------------------------------------------------------------------------
(* What the last poll of extraction i collected, and what T's contract     *)
(* makes of it when invoked directly                                       *)

Collected(i) == Json_into_inner(inner[i].val)
Contract(i) == DeserializeFromValue(tyT[i], tyE[i], IntoValue(Collected(i)))
CollectorFailed(i) == inner[i].tag = "Err"
ContractFailed(i) == inner[i].tag = "Ok" /\ Contract(i).tag = "Err"
ContractSatisfied(i) == inner[i].tag = "Ok" /\ Contract(i).tag = "Ok"

\* everything the model holds about extraction i
ExtractionState(i) ==
    <<phase[i], tyT[i], tyE[i], stream[i], starts[i], inner[i], output[i],
      trace[i], outcomes[i], deserCalls[i], got[i]>>

----------------------------------------------------------------------------
(* Claims *)

\* C1: whenever the inner future of an extraction completes with a failure,
\* of whatever kind and for whatever T and E, the poll returns Ready with the
\* structured error whose code is MalformedPayload and whose message is the
\* Display of the collector's error.
C1_CollectorFailureIsMalformedPayload ==
    \A i \in Extractions :
        CollectorFailed(i) =>
            output[i] = [tag |-> "Ready",
                         res |-> [tag |-> "Err",
                                  err |-> [message |-> Display(inner[i].err),
                                           code |-> "MalformedPayload"]]]

\* C1 witness: both kinds of collector failure have been mapped, under
\* different T and E, one of them for a request whose payload was absent.
C1_Witness ==
    /\ inner["x1"] = CollectorErr("malformed")
    /\ inner["x2"] = CollectorErr("empty")
    /\ stream["x2"] = "None"
    /\ tyT["x1"] # tyT["x2"]
    /\ tyE["x1"] # tyE["x2"]
    /\ output["x1"].tag = "Ready"
    /\ output["x2"].tag = "Ready"

\* C2 (as stated): whenever the body parses but T's contract fails with e,
\* the poll returns the structured error that is e's own conversion, and its
\* code is never MalformedPayload.
C2_Original ==
    \A i \in Extractions :
        ContractFailed(i) =>
            /\ output[i] = PollReady(Err(IntoResponseError(Contract(i).err)))
            /\ output[i].res.err.code # "MalformedPayload"

\* C2 (amended): whenever the body parses but T's contract fails with e, the
\* poll returns the structured error that is e's own conversion; its code is
\* the code E gives e, so it is MalformedPayload only if E itself maps e to
\* MalformedPayload.
C2_ValidationFailureIsOwnConversion ==
    \A i \in Extractions :
        ContractFailed(i) =>
            /\ output[i].tag = "Ready"
            /\ output[i].res.tag = "Err"
            /\ output[i].res.err.message = ErrorMessage(Contract(i).err)
            /\ output[i].res.err.code = ErrorCode(Contract(i).err)
            /\ (ErrorCode(Contract(i).err) # "MalformedPayload"
                    => output[i].res.err.code # "MalformedPayload")

\* C2 witness: a missing field and a wrongly typed field have both been
\* reported, by an E that has its own codes.
C2_Witness ==
    /\ ContractFailed("x1") /\ ContractFailed("x2")
    /\ tyE["x1"] = "FieldError" /\ tyE["x2"] = "FieldError"
    /\ Contract("x1").err.kind = "missing_field"
    /\ Contract("x2").err.kind = "incorrect_value_kind"
    /\ output["x1"].tag = "Ready" /\ output["x2"].tag = "Ready"

\* C3: whenever the body parses into a Generic Value v that satisfies T's
\* contract, the poll returns Ready(Ok(w)) and the value wrapped in w is
\* exactly the value the contract produces when invoked directly on v.
C3_SuccessPassesTypedValueThrough ==
    \A i \in Extractions :
        ContractSatisfied(i) =>
            /\ output[i].tag = "Ready"
            /\ output[i].res.tag = "Ok"
            /\ output[i].res.val[1] = Contract(i).val

\* C3 witness: a body with the field and a body without it have both been
\* extracted successfully.
C3_Witness ==
    /\ ContractSatisfied("x1") /\ ContractSatisfied("x2")
    /\ Collected("x1") = JObject({<<"name", JString("a")>>})
    /\ Collected("x2") = JObject({})
    /\ output["x1"].res.val[1].name = <<"a">>
    /\ output["x2"].res.val[1].name = <<>>

\* a Poll::Ready output holds exactly one of {typed value, structured error}
ExactlyOneOf(out) ==
    \/ /\ out.res.tag = "Ok"
       /\ DOMAIN out.res = {"tag", "val"}
       /\ out.res.val[1] \in TypedValues
    \/ /\ out.res.tag = "Err"
       /\ DOMAIN out.res = {"tag", "err"}
       /\ DOMAIN out.res.err = {"message", "code"}

\* C4 (as stated): over any sequence of polls an extraction yields at most
\* one outcome, and an outcome is exactly one of {typed value, structured
\* error}.
C4_Original ==
    \A i \in Extractions :
        /\ outcomes[i] <= 1
        /\ output[i].tag = "Ready" => ExactlyOneOf(output[i])

\* C4 (amended): every poll that returns Ready yields exactly one of {typed
\* value, structured error}, never both; over the polls up to and including
\* the one in which the Body Collector completes, an extraction yields
\* exactly one outcome (none while it is awaiting the body or cancelled).
\* Polls made after completion may yield further outcomes.
C4_OneOutcomePerCompletion ==
    \A i \in Extractions :
        /\ phase[i] \in {"unborn", "awaiting", "cancelled"} => outcomes[i] = 0
        /\ phase[i] \in {"ready", "finished"} =>
               outcomes[i] = 1 /\ output[i].tag = "Ready"
        /\ output[i].tag = "Ready" => ExactlyOneOf(output[i])

\* C4 witness: one extraction completed with a typed value, the other with
\* a structured error, each exactly once, and both results were taken.
C4_Witness ==
    /\ phase["x1"] = "finished" /\ phase["x2"] = "finished"
    /\ output["x1"].res.tag = "Ok" /\ output["x2"].res.tag = "Err"
    /\ outcomes["x1"] = 1 /\ outcomes["x2"] = 1

\* the contract is only ever given the completely collected Generic Value
DeserializedOnlyCollected(i) ==
    \A k \in 1..Len(trace[i]) :
        trace[i][k].op = "deserialize_from_value" =>
            /\ inner[i].tag = "Ok"
            /\ trace[i][k].arg = IntoValue(Collected(i))

\* C5 (as stated): over any sequence of polls of one extraction, T's
\* contract is invoked at most once, and only on a completely collected
\* Generic Value.
C5_Original ==
    \A i \in Extractions :
        deserCalls[i] <= 1 /\ DeserializedOnlyCollected(i)

\* C5 (amended): each poll invokes T's contract at most once, and only on
\* the completely collected Generic Value; over the polls up to and including
\* the one in which the Body Collector completes it is invoked at most once
\* in total (exactly once if the collector succeeded, never before it
\* completed).  Polls made after completion may invoke it again.
C5_AtMostOneDeserializationPerCompletion ==
    \A i \in Extractions :
        /\ phase[i] \in {"unborn", "awaiting", "cancelled"} => deserCalls[i] = 0
        /\ phase[i] \in {"ready", "finished"} =>
               deserCalls[i] = (IF inner[i].tag = "Ok" THEN 1 ELSE 0)
        /\ CountOp(trace[i], "deserialize_from_value") <= 1
        /\ DeserializedOnlyCollected(i)
        /\ deserCalls[i] <= outcomes[i]

\* C5 witness: one extraction has deserialized its collected body once, the
\* other is still suspended and has deserialized nothing.
C5_Witness ==
    /\ phase["x1"] = "finished" /\ deserCalls["x1"] = 1
    /\ CountOp(trace["x1"], "deserialize_from_value") = 1
    /\ phase["x2"] = "awaiting" /\ inner["x2"] = Pending
    /\ deserCalls["x2"] = 0

\* C6: an extraction cancelled while it awaits the body has never invoked
\* the contract, has produced no typed value and no error, and never does:
\* nothing about it changes any more.
C6_CancelledNeverCompletes ==
    /\ [](\A i \in Extractions :
            phase[i] = "cancelled" =>
                /\ deserCalls[i] = 0
                /\ outcomes[i] = 0
                /\ output[i].tag # "Ready"
                /\ got[i] = None)
    /\ [][\A i \in Extractions :
            phase[i] = "cancelled" => ExtractionState(i)' = ExtractionState(i)]_vars

\* C6 witness: an extraction was polled, returned Pending, and was then
\* cancelled, while the other extraction went on to complete.
C6_Witness ==
    /\ phase["x1"] = "cancelled"
    /\ inner["x1"] = Pending
    /\ output["x1"] = PollPending
    /\ phase["x2"] = "finished"

\* C7: within one poll the steps run in the order collector -> deserialize
\* -> map: the poll of the inner future comes first and once; the contract
\* is invoked only right after the successfully collected body has been
\* converted, and on that body; the outcome is mapped last, right after the
\* contract returned; when the collector fails the contract is not invoked
\* and the malformed-payload error is built at once.  Before the collector
\* has completed, and when it completed with a failure, the extraction has
\* not invoked the contract at all.
C7_StepsInOrder ==
    \A i \in Extractions :
        LET t == trace[i]
        IN  /\ t # <<>> =>
                   /\ t[1] = Step("poll_inner", inner[i])
                   /\ CountOp(t, "poll_inner") = 1
            /\ \A k \in 1..Len(t) :
                   /\ t[k].op = "into_value" => k = 2 /\ inner[i].tag = "Ok"
                   /\ t[k].op = "deserialize_from_value" =>
                          /\ k = 3
                          /\ t[2].op = "into_value"
                          /\ t[k].arg = IntoValue(Collected(i))
                   /\ t[k].op \in {"new", "into"} =>
                          /\ k = Len(t)
                          /\ t[k - 1].op = "deserialize_from_value"
                          /\ t[k].arg = Contract(i)
                   /\ t[k].op = "from_msg" =>
                          k = 2 /\ k = Len(t) /\ inner[i].tag = "Err"
            /\ inner[i].tag = "Ok" => Len(t) = 4
            /\ inner[i].tag = "Err" =>
                   Len(t) = 2 /\ CountOp(t, "deserialize_from_value") = 0
            /\ inner[i].tag \in {"Pending", "Panic"} => Len(t) = 1
            /\ phase[i] \in {"unborn", "awaiting", "cancelled"} => deserCalls[i] = 0
            /\ phase[i] \in {"ready", "finished"} /\ inner[i].tag = "Err" =>
                   deserCalls[i] = 0

\* C7 witness: one extraction ran collector -> deserialize -> map, the other
\* short-circuited on a collector failure.
C7_Witness ==
    /\ Len(trace["x1"]) = 4
    /\ trace["x1"][3].op = "deserialize_from_value"
    /\ trace["x1"][4].op = "into"
    /\ Len(trace["x2"]) = 2
    /\ trace["x2"][2].op = "from_msg"
    /\ phase["x2"] = "ready" /\ deserCalls["x2"] = 0

\* the extractions whose inner future owns the body stream of request r
Owners(r) == {i \in Extractions : stream[i] = r}

\* C8: an extraction starts the Body Collector exactly once, at
\* from_request, and no poll starts it again; a request's body stream is
\* taken exactly once, by one extraction; a failure of either class is
\* returned by the poll that met it, with the contract run once for a
\* validation failure and not at all for a collector failure, and nothing
\* is re-run before the caller takes the error.
C8_StartedOnceNoRetry ==
    /\ \A i \in Extractions :
           /\ starts[i] = (IF phase[i] = "unborn" THEN 0 ELSE 1)
           /\ CountOp(trace[i], "poll_inner") <= 1
           /\ phase[i] \in {"ready", "finished"} /\ output[i].res.tag = "Err" =>
                  /\ outcomes[i] = 1
                  /\ deserCalls[i] = (IF ContractFailed(i) THEN 1 ELSE 0)
                  /\ CountOp(trace[i], "deserialize_from_value") = deserCalls[i]
                  /\ phase[i] = "finished" => got[i] = output[i].res
    /\ \A r \in Requests :
           Cardinality(Owners(r)) = (IF payload[r] = "None" THEN 1 ELSE 0)

\* C8 witness: two extractions were built from the same request; the first
\* owns its stream and failed validation, the second found the payload
\* taken and failed in the collector; both errors were taken by the caller.
C8_Witness ==
    /\ stream["x1"] = "r1" /\ stream["x2"] = "None"
    /\ payload["r1"] = "None" /\ payload["r2"] = "Stream"
    /\ phase["x1"] = "finished" /\ phase["x2"] = "finished"
    /\ ContractFailed("x1") /\ deserCalls["x1"] = 1
    /\ CollectorFailed("x2") /\ deserCalls["x2"] = 0

\* C9: with several extractions in flight and their polls interleaved in
\* any order, every step reads and writes the state of one extraction only;
\* what an extraction returns is what its own T, E and its own collector's
\* result give, whatever the others did; and no body stream is owned by
\* more than one extraction.
C9_ExtractionsIndependent ==
    /\ [](/\ \A i \in Extractions :
                trace[i] # <<>> =>
                    /\ output[i] = PollRun(tyT[i], tyE[i], inner[i]).ret
                    /\ trace[i] = PollRun(tyT[i], tyE[i], inner[i]).steps
          /\ \A i, j \in Extractions :
                i # j /\ stream[i] \in Requests => stream[i] # stream[j])
    /\ [][\A i, j \in Extractions :
            i # j => \/ ExtractionState(i)' = ExtractionState(i)
                     \/ ExtractionState(j)' = ExtractionState(j)]_vars

\* C9 witness: two extractions for different requests are in flight; one
\* has completed with a typed value while the other, of another T, was
\* polled and is still suspended.
C9_Witness ==
    /\ stream["x1"] = "r1" /\ stream["x2"] = "r2"
    /\ phase["x1"] = "ready" /\ output["x1"].res.tag = "Ok"
    /\ phase["x2"] = "awaiting" /\ inner["x2"] = Pending
    /\ tyT["x1"] # tyT["x2"]

\* C10: into_inner is a pure unwrap: for every typed value x,
\* ValidatedJson::new(x).into_inner() is x, and the wrapper holds x and the
\* zero-sized marker only; so what the caller takes out of a successful
\* extraction is the typed value the contract produced.
C10_IntoInnerUnwraps ==
    /\ \A x \in TypedValues :
           /\ ValidatedJson_into_inner(ValidatedJson_new(x)) = x
           /\ Len(ValidatedJson_new(x)) = 2
           /\ ValidatedJson_new(x)[1] = x
           /\ ValidatedJson_new(x)[2] = PhantomData
    /\ \A i \in Extractions :
           phase[i] = "finished" /\ output[i].res.tag = "Ok" =>
               /\ \E x \in TypedValues :
                      /\ output[i].res.val = <<x, PhantomData>>
                      /\ got[i] = [tag |-> "Ok", val |-> x]
               /\ got[i].val = Contract(i).val

\* C10 witness: the caller unwrapped a successful extraction and holds the
\* typed value NameDoc { name: "a" }.
C10_Witness ==
    /\ phase["x1"] = "finished"
    /\ output["x1"].res.tag = "Ok"
    /\ got["x1"] = [tag |-> "Ok", val |-> [type |-> "NameDoc", name |-> <<"a">>]]

\* C11: the only suspension is the wait for the Body Collector: a poll
\* returns Pending if and only if its poll of the inner future returned
\* Pending, and the poll in which the inner future is ready runs the
\* deserialization (on success) and the mapping and returns Ready itself.
C11_SuspendsOnlyOnCollector ==
    \A i \in Extractions :
        trace[i] # <<>> =>
            /\ output[i] = PollPending <=> inner[i] = Pending
            /\ inner[i].tag \in {"Ok", "Err"} =>
                   /\ output[i].tag = "Ready"
                   /\ trace[i][Len(trace[i])].op \in {"new", "into", "from_msg"}
            /\ inner[i].tag = "Ok" =>
                   CountOp(trace[i], "deserialize_from_value") = 1
            /\ output[i].tag = "Ready" => inner[i].tag \in {"Ok", "Err"}

\* C11 witness: one extraction is suspended on a pending collector; the
\* other was polled with a ready collector and, in that poll, deserialized,
\* mapped and returned Ready.
C11_Witness ==
    /\ phase["x1"] = "awaiting"
    /\ inner["x1"] = Pending /\ output["x1"] = PollPending
    /\ phase["x2"] = "ready"
    /\ inner["x2"].tag = "Ok" /\ output["x2"].tag = "Ready"
    /\ Len(trace["x2"]) = 4

\* C12: the adapter holds no state across extractions: two extractions with
\* the same T and E whose collectors delivered the same result returned the
\* same outcome, whatever was extracted before or in between; and polling
\* an extraction again with the same collector result returns the same
\* outcome again.
C12_NoStateAcrossExtractions ==
    /\ [](\A i, j \in Extractions :
            /\ trace[i] # <<>> /\ trace[j] # <<>>
            /\ tyT[i] = tyT[j] /\ tyE[i] = tyE[j]
            /\ inner[i] = inner[j]
            => output[i] = output[j] /\ trace[i] = trace[j])
    /\ [][\A i \in Extractions :
            trace[i] # <<>> /\ inner'[i] = inner[i] => output'[i] = output[i]]_vars

\* C12 witness: an extraction ran to the end and its result was taken; the
\* other, of the same T and E, was given the same body and returned the
\* same typed value.
C12_Witness ==
    /\ phase["x1"] = "finished" /\ phase["x2"] = "ready"
    /\ tyT["x1"] = tyT["x2"] /\ tyE["x1"] = tyE["x2"]
    /\ inner["x1"] = inner["x2"]
    /\ inner["x1"] = CollectorOk(JObject({<<"name", JString("a")>>}))
    /\ output["x1"] = output["x2"]
    /\ output["x1"].res.tag = "Ok"

\* C13: an extraction that awaits its body, is polled again after every
\* Pending and whose collector becomes ready in the end, eventually completes
\* with exactly one typed value or structured error, unless it is cancelled.
C13_EventuallyCompletes ==
    \A i \in Extractions :
        (phase[i] = "awaiting")
            ~> \/ phase[i] = "cancelled"
               \/ /\ phase[i] = "ready"
                  /\ output[i].tag = "Ready"
                  /\ outcomes[i] = 1

\* C13 witness: an extraction has completed with a structured error while
\* the other, polled and suspended on its own request's body, is still to
\* complete.
C13_Witness ==
    /\ phase["x1"] = "ready"
    /\ output["x1"].tag = "Ready" /\ output["x1"].res.tag = "Err"
    /\ outcomes["x1"] = 1
    /\ phase["x2"] = "awaiting"
    /\ stream["x2"] \in Requests
    /\ inner["x2"] = Pending /\ output["x2"] = PollPending

\* what a poll returns when its poll of the inner future returned res
FromInnerPoll(T, E, res) ==
    IF res.tag = "Panic" THEN Unwound
    ELSE IF res.tag = "Pending" THEN PollPending
    ELSE PollReady(MatchRes(T, E, res).res)

\* C14: the future keeps no completion state: every call of poll, also one
\* made after the extraction has returned Ready, polls the inner future
\* exactly once, as its first step, and returns what that inner poll gives;
\* an earlier outcome is neither remembered nor replayed, so after Ready a
\* poll returns Pending when the inner future is pending and a different
\* outcome when the inner future gives a different result.
C14_NoCompletionState ==
    /\ [](\A i \in Extractions :
            trace[i] # <<>> =>
                /\ CountOp(trace[i], "poll_inner") = 1
                /\ trace[i][1] = Step("poll_inner", inner[i])
                /\ output[i] = FromInnerPoll(tyT[i], tyE[i], inner[i]))
    /\ [][\A i \in Extractions :
            /\ phase[i] \in {"ready", "repolled"} /\ phase'[i] = "repolled"
            /\ ExtractionState(i)' # ExtractionState(i)
            =>
                /\ trace'[i][1] = Step("poll_inner", inner'[i])
                /\ output'[i] = FromInnerPoll(tyT[i], tyE[i], inner'[i])
                /\ outcomes'[i] =
                       outcomes[i] + (IF inner'[i].tag \in {"Ok", "Err"} THEN 1 ELSE 0)]_vars

\* C14 witness: an extraction that had returned Ready was polled again, the
\* inner future was pending, and the poll returned Pending; the other one
\* was polled again and returned a second outcome.
C14_Witness ==
    /\ phase["x1"] = "repolled" /\ outcomes["x1"] = 1
    /\ inner["x1"] = Pending /\ output["x1"] = PollPending
    /\ phase["x2"] = "repolled" /\ outcomes["x2"] = 2
    /\ output["x2"].tag = "Ready"

====
